---- MODULE Spec2Model ----
(***************************************************************************)
(* The reminder scheduler of the Reminders plugin                          *)
(* (packages/bot/src/plugins/reminders/plugin.py).                         *)
(*                                                                         *)
(* One plugin instance of one shard is modelled together with the remote   *)
(* reminder store it talks to.  Every `await` of the plugin is a point     *)
(* where other coroutines run, so each handler is cut at its awaits: a     *)
(* store request takes effect at the store in one step and the coroutine   *)
(* that issued it resumes in a later step.                                 *)
(*                                                                         *)
(* Time is counted in ticks of five minutes, the granularity of the        *)
(* postponement delay.                                                     *)
(*                                                                         *)
(* Three further parts follow the scheduler, each with a specification of  *)
(* its own: Command._transform_greedy_pos (SpecGreedy), the prune commands *)
(* of the Admin plugin (SpecPrune) and the config cache of the Config      *)
(* plugin (SpecConfig).                                                    *)
(***************************************************************************)
EXTENDS Integers, FiniteSets, Sequences, TLC

\* ----------------------------------------------------------------- bounds
MaxReminders == 3      \* reminders created over a run (ids 1..MaxReminders)
MaxStored    == 2      \* reminders in the store at once
MaxTime      == 3      \* the clock runs from 0 to MaxTime
MaxCmds      == 1      \* command handlers in flight at once
MaxCancelIds == 1      \* ids given to one `remind cancel`

\* -------------------------------------------------------------- constants
None          == -1    \* Python's None for _next / an absent expires_at
PostponeDelay == 1     \* datetime.timedelta(minutes=5), in five-minute ticks

Users    == {"u1", "u2"}    \* authors of commands
Creators == {"u1"}          \* authors of remind; u2 only tries to cancel
Ids   == 1..MaxReminders

GuildStates   == {"none", "unavailable", "ok"}
ChannelStates == {"none", "noperm", "ok"}
\* channel.guild.get_member(user_id): None, a member without, or a member
\* with mention_everyone in the channel
MemberStates  == {"absent", "plain", "mention_everyone"}
\* message.reply: it returns, it raises discord.HTTPException because the
\* message replied to is gone, or it raises another discord.HTTPException
\* (Forbidden, DiscordServerError)
ReplyOutcomes == {"ok", "unusable", "http"}

VARIABLES
    now,        \* the clock (datetime.utcnow())
    store,      \* the reminder store: a set of [id, user_id, expires_at]
    nextId,     \* the id the store assigns to the next created reminder
    _next,      \* Reminders._next
    _task,      \* the task Reminders._task refers to
    inner,      \* shielded _delete_reminder / _reschedule_reminder coroutines
    cmds,       \* remind / remind cancel handlers suspended at an await
    fired,      \* history: per id, "no", "fired" (the loop woke for it) or
                \* "attempted" (a firing went as far as a delivery attempt);
                \* kept while the id can still be fetched or fired
    lastFired,  \* history: expires_at of the latest firing
    ahead,      \* history: [a, b] when a create of b, due before a, restarted
                \* the loop while it slept on a; kept until b fires or either
                \* leaves the store
    dues,       \* history: the due times given to created reminders (kept
                \* only where creates are required to be pairwise distinct)
    tasks,      \* the number of _fulfill_reminders tasks that are neither
                \* finished nor cancelled
    greedy,     \* one call of Command._transform_greedy_pos (bot/command.py)
    prune,      \* the guild and one prune command of the Admin plugin
    config      \* the Config plugin: guild_configs, _configs and its calls

vars == <<now, store, nextId, _next, _task, inner, cmds, fired, lastFired, ahead, dues, tasks,
          greedy, prune, config>>

\* the state of the Reminders plugin and of the other plugins
reminders == <<now, store, nextId, _next, _task, inner, cmds, fired, lastFired, ahead, dues, tasks>>
others    == <<greedy, prune, config>>

\* ------------------------------------------------------------------ store
StoredIds(s) == {r.id : r \in s}

\* get_reminder(idx): the stored reminders with that id (empty: NotFound)
get_reminder(idx) == {r \in store : r.id = idx}

\* get_reminders(shard_id)[0]: the earliest reminder, ties in id order
Earliest(s) ==
    CHOOSE r \in s : \A q \in s :
        \/ r.expires_at < q.expires_at
        \/ r.expires_at = q.expires_at /\ r.id <= q.id

\* create_reminder(data): the store assigns the next id
create_reminder(s, idx, user, expires_at) ==
    s \cup {[id |-> idx, user_id |-> user, expires_at |-> expires_at]}

\* delete_reminder(idx): delete if present
delete_reminder(s, idx) == {r \in s : r.id # idx}

\* update_reminder(idx, expires_at): replace expires_at if present
update_reminder(s, idx, expires_at) ==
    {IF r.id = idx THEN [r EXCEPT !.expires_at = expires_at] ELSE r : r \in s}

\* ------------------------------------------------------------------- task
\* discord.AllowedMentions(everyone, users, replied_user)
AllowedMentions(everyone, users, replied_user) ==
    [everyone |-> everyone, users |-> users, replied_user |-> replied_user]

\* no allowed_mentions: nothing is being sent
NoMentions == AllowedMentions(FALSE, FALSE, FALSE)

\* the locals of the task: the reminder it fetched, what it found at
\* wake-up (guild, channel, member), the mention policy it computed
\* (mentions), the allowed_mentions of the call it awaits (used) and the
\* error of the reply it fell back from
IdleTask(pc) == [pc |-> pc, id |-> 0, expires_at |-> None,
                 guild |-> "unset", channel |-> "unset", member |-> "unset",
                 mentions |-> NoMentions, used |-> NoMentions, error |-> "none"]

\* create_task(self._fulfill_reminders()): a task about to issue its fetch
NewTask == IdleTask("fetch")

\* self._task.cancel(); self._task = create_task(self._fulfill_reminders())
\* The cancelled task is suspended at an await and catches nothing, so it
\* ends there; a coroutine it shielded keeps running in `inner`.
RestartTask == NewTask

\* self._task.cancel() without effect
Cancel_Missing(n, t) == n

\* self._task.cancel() only for a task that sleeps
Cancel_OnlySleeping(n, t) == IF t.pc = "sleep" THEN n - 1 ELSE n

\* self._task.cancel(): a task that has not finished is cancelled at the
\* await it is suspended at; cancelling a finished task changes nothing
Cancel(n, t) == IF t.pc \in {"done", "failed"} THEN n ELSE n - 1

\* line 182 inside a try whose finally deletes the reminder
OnCancelled_DeletesSleptOn(t) ==
    IF t.pc = "sleep"
    THEN {[kind |-> "delete", id |-> t.id, expires_at |-> None, phase |-> "request"]}
    ELSE {}

\* what the cancelled task still starts when CancelledError is raised at
\* its await: _fulfill_reminders has no except or finally for it
OnCancelled(t) == {}

\* create_task(...): one more task
create_task(n) == n + 1

\* lines 77-78 and 160-161 on the number of tasks
Restarted(n, t) == create_task(Cancel(n, t))

Firing == {"reply", "send", "shield"}

\* A shielded coroutine is scheduled by asyncio.shield and takes its first
\* step in the next pass of the event loop: only callbacks that were already
\* ready (resumed command handlers) can run before it.
InnerPending == \E op \in inner : op.phase = "new"

\* ---------------------------------------------------------------- history
\* Ids are never reused and a task only fires what a fetch returned, so an
\* id that is neither stored nor held by the task cannot fire again: its
\* history is dropped.
Live(h, s, t) ==
    [i \in Ids |-> IF t.id = i \/ i \in StoredIds(s) THEN h[i] ELSE "no"]

NoPair == [a |-> 0, b |-> 0]

LiveAhead(p, s) == IF {p.a, p.b} \subseteq StoredIds(s) THEN p ELSE NoPair

\* ---------------------------------------------------- the other plugins
\* The specifications of the reminder scheduler hold the other plugins
\* constant, with no call under way.

\* no _transform_greedy_pos call
NoCall == [pc |-> "idle"]

\* no prune command
NoPrune == [pc |-> "idle"]

\* an empty config cache
NoConfig == [_configs |-> {}]

Init ==
    /\ now = 0
    /\ store = {}
    /\ nextId = 1
    /\ _next = None
    /\ _task = NewTask
    /\ inner = {}
    /\ cmds = {}
    /\ fired = [i \in Ids |-> "no"]
    /\ lastFired = None
    /\ ahead = NoPair
    /\ dues = {}
    /\ tasks = 1
    /\ greedy = NoCall
    /\ prune = NoPrune
    /\ config = NoConfig

\* ------------------------------------------------------- command handlers
\* the locals of a suspended handler; `removed` is history (the ids this
\* invocation deleted), and locals no longer read are reset
Cmd(kind, author, expires, idx, ids, deleted, removed, phase) ==
    [kind |-> kind, author |-> author, expires |-> expires, id |-> idx,
     ids |-> ids, deleted |-> deleted, removed |-> removed, phase |-> phase]

\* line 76 without its comparison: restart only when nothing is waited on
ShouldRestartOnCreate_NoCompare(expires) == _next = None

\* remind, line 76: restart when nothing is waited on or the new reminder
\* is due before the one waited on
ShouldRestartOnCreate(expires) == _next = None \/ _next > expires

\* lines 158-159 with the test of _next inverted
ShouldRestartOnCancel_Inverted(deleted) == deleted > 0 /\ _next = None

\* remind cancel, lines 158-159
ShouldRestartOnCancel(deleted) == deleted > 0 /\ _next # None

\* remind, lines 57-73: the handler computes expires and awaits
\* create_reminder; the store commits the reminder under a fresh id.
Create(user, expires, duesAfter) ==
    /\ ~InnerPending
    /\ Cardinality(cmds) < MaxCmds
    /\ nextId <= MaxReminders
    /\ Cardinality(store) < MaxStored
    /\ expires > now
    /\ store' = create_reminder(store, nextId, user, expires)
    /\ nextId' = nextId + 1
    /\ cmds' = cmds \cup {Cmd("remind", "-", expires, nextId, <<>>, 0, {}, "created")}
    /\ dues' = duesAfter
    /\ UNCHANGED <<now, _next, _task, inner, fired, lastFired, ahead, tasks, others>>

RemindCreate(user, expires) == Create(user, expires, dues)

\* the same, for reminders of pairwise distinct due times
RemindCreateDistinct(user, expires) ==
    /\ expires \notin dues
    /\ Create(user, expires, dues \cup {expires})

\* remind, lines 74-81: the handler resumes after create_reminder
RemindResume(c) ==
    /\ c.kind = "remind"
    /\ _task' = IF ShouldRestartOnCreate(c.expires) THEN RestartTask ELSE _task
    /\ cmds' = cmds \ {c}
    /\ fired' = Live(fired, store, _task')
    /\ ahead' = IF /\ _task.pc = "sleep" /\ c.expires < _task.expires_at
                   /\ c.id # _task.id /\ fired[c.id] = "no"
                   /\ {c.id, _task.id} \subseteq StoredIds(store)
                THEN [a |-> _task.id, b |-> c.id]
                ELSE ahead
    /\ tasks' = IF ShouldRestartOnCreate(c.expires) THEN Restarted(tasks, _task) ELSE tasks
    /\ inner' = IF ShouldRestartOnCreate(c.expires) THEN inner \cup OnCancelled(_task) ELSE inner
    /\ UNCHANGED <<now, store, nextId, _next, lastFired, dues, others>>

\* the for loop of remind cancel moves to the next id, or leaves the loop
NextId(c, deleted, removed) ==
    IF Tail(c.ids) = <<>>
    THEN Cmd("cancel", "-", None, 0, <<>>, deleted, removed, "finish")
    ELSE [c EXCEPT !.ids = Tail(c.ids), !.deleted = deleted,
                   !.removed = removed, !.phase = "get"]

\* lines 143-149 without the test of line 148
AfterGet_NoOwnerTest(c) ==
    IF get_reminder(Head(c.ids)) = {}
    THEN NextId(c, c.deleted, c.removed)
    ELSE [c EXCEPT !.phase = "delete"]

\* remind cancel, lines 143-149: the store answers get_reminder(idx); the
\* handler skips an id that is unknown or not the author's
AfterGet(c) ==
    LET found == get_reminder(Head(c.ids))
        skip  == found = {} \/ \E r \in found : r.user_id # c.author
    IN  IF skip THEN NextId(c, c.deleted, c.removed) ELSE [c EXCEPT !.phase = "delete"]

\* remind cancel, lines 140-144: the handler starts on its list of ids and
\* awaits the first get_reminder
RemindCancel(user, ids) ==
    /\ ~InnerPending
    /\ Cardinality(cmds) < MaxCmds
    /\ cmds' = cmds \cup {Cmd("cancel", user, None, 0, ids, 0, {}, "get")}
    /\ UNCHANGED <<now, store, nextId, _next, _task, inner, fired, lastFired, ahead, dues, tasks, others>>

\* remind cancel, lines 142-149: get_reminder(idx) and the owner check
CancelGet(c) ==
    /\ ~InnerPending
    /\ c.kind = "cancel" /\ c.phase = "get"
    /\ cmds' = (cmds \ {c}) \cup {AfterGet(c)}
    /\ UNCHANGED <<now, store, nextId, _next, _task, inner, fired, lastFired, ahead, dues, tasks, others>>

\* remind cancel, lines 151-156: delete_reminder(idx), NotFound is passed over
CancelDelete(c) ==
    /\ ~InnerPending
    /\ c.kind = "cancel" /\ c.phase = "delete"
    /\ LET idx   == Head(c.ids)
           found == get_reminder(idx) # {}
       IN  /\ store' = delete_reminder(store, idx)
           /\ cmds' = (cmds \ {c}) \cup
                      {IF found THEN NextId(c, c.deleted + 1, c.removed \cup {idx})
                                ELSE NextId(c, c.deleted, c.removed)}
    /\ fired' = Live(fired, store', _task)
    /\ ahead' = LiveAhead(ahead, store')
    /\ UNCHANGED <<now, nextId, _next, _task, inner, lastFired, dues, tasks, others>>

\* remind cancel, lines 158-167: the handler resumes after its last store call
CancelFinish(c) ==
    /\ c.kind = "cancel" /\ c.phase = "finish"
    /\ _task' = IF ShouldRestartOnCancel(c.deleted) THEN RestartTask ELSE _task
    /\ cmds' = cmds \ {c}
    /\ fired' = Live(fired, store, _task')
    /\ tasks' = IF ShouldRestartOnCancel(c.deleted) THEN Restarted(tasks, _task) ELSE tasks
    /\ inner' = IF ShouldRestartOnCancel(c.deleted) THEN inner \cup OnCancelled(_task) ELSE inner
    /\ UNCHANGED <<now, store, nextId, _next, lastFired, ahead, dues, others>>

\* ------------------------------------------------------ _fulfill_reminders
\* line 174: the store answers get_reminders; NotFound ends the task (175-176)
Fetch ==
    /\ ~InnerPending
    /\ _task.pc = "fetch"
    /\ _task' = IF store = {}
                THEN IdleTask("done")
                ELSE [IdleTask("fetched") EXCEPT !.id = Earliest(store).id,
                                                 !.expires_at = Earliest(store).expires_at]
    /\ tasks' = IF store = {} THEN tasks - 1 ELSE tasks
    /\ UNCHANGED <<now, store, nextId, _next, inner, cmds, fired, lastFired, ahead, dues, others>>

\* lines 178-182: the task resumes with the response and starts to sleep
FetchResume ==
    /\ ~InnerPending
    /\ _task.pc = "fetched"
    /\ _next' = _task.expires_at
    /\ _task' = [_task EXCEPT !.pc = "sleep"]
    /\ UNCHANGED <<now, store, nextId, inner, cmds, fired, lastFired, ahead, dues, tasks, others>>

\* line 182 waking one tick early
SleepOver_Early(expires_at) == now + 1 >= expires_at

\* discord.utils.sleep_until(expires_at), line 182
SleepOver(expires_at) == now >= expires_at

\* line 192 without the delay
Postponed_NoDelay(expires_at) == expires_at

\* line 192
Postponed(expires_at) == expires_at + PostponeDelay

\* lines 190-194 deleting instead of postponing
FirstAwait_UnavailableDeletes(guild, channel) ==
    IF guild \in {"none", "unavailable"} THEN "delete"
    ELSE IF channel \in {"none", "noperm"} THEN "delete"
    ELSE "reply"

\* lines 184-200 without the permission test of line 198
FirstAwait_NoPermissionTest(guild, channel) ==
    IF guild = "none" THEN "delete"
    ELSE IF guild = "unavailable" THEN "reschedule"
    ELSE IF channel = "none" THEN "delete"
    ELSE "reply"

\* lines 184-200: what the woken task awaits first
FirstAwait(guild, channel) ==
    IF guild = "none" THEN "delete"
    ELSE IF guild = "unavailable" THEN "reschedule"
    ELSE IF channel \in {"none", "noperm"} THEN "delete"
    ELSE "reply"

\* asyncio.shield(self._delete_reminder(idx)) /
\* asyncio.shield(self._reschedule_reminder(idx, expires_at))
Shielded(kind, idx, expires_at) ==
    [kind |-> kind, id |-> idx, expires_at |-> expires_at, phase |-> "new"]

\* lines 215-218 allowing @everyone whoever the member is
AllowEveryone_Always(member) == TRUE

\* lines 213-218: everyone
AllowEveryone(member) == member = "mention_everyone"

\* line 230: allowed_mentions of the fallback channel.send
FallbackMentions(t) == t.mentions

\* the delivery is over: the locals of the mention policy are not read again
Delivered(t) ==
    [t EXCEPT !.pc = "shield", !.member = "unset", !.mentions = NoMentions,
              !.used = NoMentions]

\* lines 182-225: sleep_until returns and the task runs up to its next await
Wake(guild, channel, member) ==
    /\ ~InnerPending
    /\ _task.pc = "sleep"
    /\ SleepOver(_task.expires_at)
    \* the channel is looked up in a usable guild only (line 196), the
    \* member on the way to a delivery only (line 213)
    /\ guild = "ok" \/ channel = "none"
    /\ FirstAwait(guild, channel) = "reply" \/ member = "absent"
    /\ LET ch   == IF guild = "ok" THEN channel ELSE "unset"
           what == FirstAwait(guild, channel)
           mentions == AllowedMentions(AllowEveryone(member), TRUE, TRUE)
           t    == IF what = "reply"
                   THEN [_task EXCEPT !.guild = guild, !.channel = ch,
                                      !.member = member, !.mentions = mentions,
                                      !.used = mentions]
                   ELSE [_task EXCEPT !.guild = guild, !.channel = ch]
       IN  /\ _task' = [t EXCEPT !.pc = IF what = "reply" THEN "reply" ELSE "shield"]
           /\ inner' = CASE what = "delete" ->
                              inner \cup {Shielded("delete", _task.id, None)}
                         [] what = "reschedule" ->
                              inner \cup {Shielded("reschedule", _task.id,
                                                   Postponed(_task.expires_at))}
                         [] OTHER -> inner
           /\ fired' = [fired EXCEPT ![_task.id] =
                             IF what = "reply" THEN "attempted"
                             ELSE IF @ = "no" THEN "fired" ELSE @]
    /\ lastFired' = _task.expires_at
    /\ ahead' = IF ahead.b = _task.id THEN NoPair ELSE ahead
    /\ UNCHANGED <<now, store, nextId, _next, cmds, dues, tasks, others>>

\* line 226: except discord.HTTPException
Caught(outcome) == outcome \in {"unusable", "http"}

\* lines 223-230, 234: message.reply returns, or raises discord.HTTPException
\* and the task falls back to channel.send
ReplyDone(outcome) ==
    /\ ~InnerPending
    /\ _task.pc = "reply"
    /\ outcome = "ok" \/ Caught(outcome)
    /\ IF outcome = "ok"
       THEN /\ _task' = Delivered(_task)
            /\ inner' = inner \cup {Shielded("delete", _task.id, None)}
       ELSE /\ _task' = [_task EXCEPT !.pc = "send", !.error = outcome,
                                      !.used = FallbackMentions(_task)]
            /\ UNCHANGED inner
    /\ UNCHANGED <<now, store, nextId, _next, cmds, fired, lastFired, ahead, dues, tasks, others>>

\* lines 229-234 going back to the fetch when the fallback failed
SendDone_DeleteOnSuccess(ok) ==
    /\ ~InnerPending
    /\ _task.pc = "send"
    /\ IF ok
       THEN /\ _task' = Delivered(_task)
            /\ inner' = inner \cup {Shielded("delete", _task.id, None)}
       ELSE /\ _task' = NewTask
            /\ UNCHANGED inner
    /\ UNCHANGED <<now, store, nextId, _next, cmds, fired, lastFired, ahead, dues, tasks, others>>

\* lines 229-234: channel.send returns or raises discord.HTTPException,
\* which is passed over
SendDone(ok) ==
    /\ ~InnerPending
    /\ _task.pc = "send"
    /\ _task' = Delivered(_task)
    /\ inner' = inner \cup {Shielded("delete", _task.id, None)}
    /\ UNCHANGED <<now, store, nextId, _next, cmds, fired, lastFired, ahead, dues, tasks, others>>

\* lines 237 and 245-246: the shielded coroutine starts and issues its
\* request; what the task found at wake-up and on its reply is not read
\* again and is reset
InnerStart(op) ==
    /\ op.phase = "new"
    /\ _next' = None
    /\ inner' = (inner \ {op}) \cup {[op EXCEPT !.phase = "request"]}
    /\ _task' = [_task EXCEPT !.guild = "unset", !.channel = "unset", !.error = "none"]
    /\ UNCHANGED <<now, store, nextId, cmds, fired, lastFired, ahead, dues, tasks, others>>

\* the task awaiting the shielded coroutine op
Awaits(t, op) == t.pc = "shield" /\ t.id = op.id

\* lines 239-242 and 248-251 without the except NotFound: the error of a
\* reminder that is gone reaches the task that awaits the coroutine
InnerDone_NotFoundRaises(op) ==
    /\ op.phase = "request"
    /\ store' = IF op.kind = "delete"
                THEN delete_reminder(store, op.id)
                ELSE update_reminder(store, op.id, op.expires_at)
    /\ inner' = inner \ {op}
    /\ _task' = IF ~Awaits(_task, op) THEN _task
                ELSE IF get_reminder(op.id) = {} THEN IdleTask("failed")
                ELSE NewTask
    /\ tasks' = IF _task'.pc = "failed" THEN tasks - 1 ELSE tasks
    /\ fired' = Live(fired, store', _task')
    /\ ahead' = LiveAhead(ahead, store')
    /\ UNCHANGED <<now, nextId, _next, cmds, lastFired, dues, others>>

\* lines 239-242 and 248-251: the store applies the request, NotFound is
\* passed over, and the task that awaits the coroutine goes on to fetch
InnerDone(op) ==
    /\ op.phase = "request"
    /\ store' = IF op.kind = "delete"
                THEN delete_reminder(store, op.id)
                ELSE update_reminder(store, op.id, op.expires_at)
    /\ inner' = inner \ {op}
    /\ _task' = IF Awaits(_task, op) THEN NewTask ELSE _task
    /\ fired' = Live(fired, store', _task')
    /\ ahead' = LiveAhead(ahead, store')
    /\ UNCHANGED <<now, nextId, _next, cmds, lastFired, dues, tasks, others>>

\* the clock advances
Tick ==
    /\ ~InnerPending
    /\ now < MaxTime
    /\ now' = now + 1
    /\ UNCHANGED <<store, nextId, _next, _task, inner, cmds, fired, lastFired, ahead, dues, tasks, others>>

\* the clock advances while no command is in flight: every command's store
\* round trips end within the tick they started in
TickPrompt == cmds = {} /\ Tick

CancelLists == UNION {[1..n -> Ids] : n \in 1..MaxCancelIds}

\* everything but the creation of reminders and the clock
Rest ==
    \/ \E c \in cmds : RemindResume(c)
    \/ \E u \in Users, ids \in CancelLists : RemindCancel(u, ids)
    \/ \E c \in cmds : CancelGet(c)
    \/ \E c \in cmds : CancelDelete(c)
    \/ \E c \in cmds : CancelFinish(c)
    \/ Fetch
    \/ FetchResume
    \/ \E g \in GuildStates, ch \in ChannelStates, m \in MemberStates : Wake(g, ch, m)
    \/ \E o \in ReplyOutcomes : ReplyDone(o)
    \/ \E ok \in BOOLEAN : SendDone(ok)
    \/ \E op \in inner : InnerStart(op)
    \/ \E op \in inner : InnerDone(op)

\* commands and the loop, with store and delivery round trips of any length
Next ==
    \/ \E u \in Creators, e \in 1..MaxTime : RemindCreate(u, e)
    \/ Rest
    \/ Tick

Spec == Init /\ [][Next]_vars

\* the same with prompt commands
NextPrompt ==
    \/ \E u \in Creators, e \in 1..MaxTime : RemindCreate(u, e)
    \/ Rest
    \/ TickPrompt

SpecPrompt == Init /\ [][NextPrompt]_vars

\* prompt commands and reminders of pairwise distinct due times
NextDistinct ==
    \/ \E u \in Creators, e \in 1..MaxTime : RemindCreateDistinct(u, e)
    \/ Rest
    \/ TickPrompt

SpecDistinct == Init /\ [][NextDistinct]_vars

\* ----------------------------------------------------- unexpected errors
\* lines 173-176: get_reminders raises something other than NotFound; the
\* loop handles nothing else, so the task ends with the exception
FetchError ==
    /\ ~InnerPending
    /\ _task.pc = "fetch"
    /\ _task' = IdleTask("failed")
    /\ fired' = Live(fired, store, _task')
    /\ tasks' = tasks - 1
    /\ UNCHANGED <<now, store, nextId, _next, inner, cmds, lastFired, ahead, dues, others>>

\* lines 223-232: message.reply or channel.send raises something other than
\* discord.HTTPException (a connection error, a timeout)
DeliveryError ==
    /\ ~InnerPending
    /\ _task.pc \in {"reply", "send"}
    /\ _task' = IdleTask("failed")
    /\ fired' = Live(fired, store, _task')
    /\ tasks' = tasks - 1
    /\ UNCHANGED <<now, store, nextId, _next, inner, cmds, lastFired, ahead, dues, others>>

\* lines 239-242 and 248-251: delete_reminder or update_reminder raises
\* something other than NotFound; it propagates through asyncio.shield into
\* the task that awaits the coroutine
InnerError(op) ==
    /\ op.phase = "request"
    /\ inner' = inner \ {op}
    /\ _task' = IF Awaits(_task, op) THEN IdleTask("failed") ELSE _task
    /\ fired' = Live(fired, store, _task')
    /\ tasks' = IF Awaits(_task, op) THEN tasks - 1 ELSE tasks
    /\ UNCHANGED <<now, store, nextId, _next, cmds, lastFired, ahead, dues, others>>

\* creates and the loop, with store and delivery calls that may fail
NextFault ==
    \/ \E u \in Creators, e \in 1..MaxTime : RemindCreate(u, e)
    \/ \E c \in cmds : RemindResume(c)
    \/ Fetch
    \/ FetchResume
    \/ \E g \in GuildStates, ch \in ChannelStates, m \in MemberStates : Wake(g, ch, m)
    \/ \E o \in ReplyOutcomes : ReplyDone(o)
    \/ \E ok \in BOOLEAN : SendDone(ok)
    \/ \E op \in inner : InnerStart(op)
    \/ \E op \in inner : InnerDone(op)
    \/ Tick
    \/ FetchError
    \/ DeliveryError
    \/ \E op \in inner : InnerError(op)

SpecFault == Init /\ [][NextFault]_vars

TypeOK ==
    /\ now \in 0..MaxTime
    /\ nextId \in 1..(MaxReminders + 1)
    /\ _next \in {None} \cup 0..(MaxTime + MaxTime * PostponeDelay)
    /\ _task.pc \in {"fetch", "fetched", "sleep", "reply", "send", "shield", "done", "failed"}
    /\ _task.member \in MemberStates \cup {"unset"}
    /\ _task.error \in ReplyOutcomes \cup {"none"}
    /\ tasks \in 0..2
    /\ \A r \in store : r.id \in Ids /\ r.user_id \in Users
    /\ \A r, q \in store : r.id = q.id => r = q

\* ------------------------------------------------------------- properties
\* the step in which sleep_until returns and the loop fires the reminder
Fires == _task.pc = "sleep" /\ _task'.pc \in Firing

\* the step in which a command handler resumes for the last time
Finishes(c) ==
    /\ c \in cmds /\ c.phase \in {"created", "finish"}
    /\ c \notin cmds'

\* C1: for reminders of pairwise distinct due_at, created in any order and
\* at any moment, the loop's firings occur in non-decreasing due_at order:
\* no firing is for a due_at before that of the firing before it.
C1_FiringOrder == [][Fires => _task.expires_at >= lastFired]_vars

\* C2: once the store was left empty, the next reminder created by remind
\* is picked up: when no command is in flight any more and a reminder is
\* stored, the loop task has not ended.
C2_CreatedIsPickedUp == (cmds = {} /\ store # {}) => _task.pc # "done"

\* C3: delivery is attempted in at most one firing of an id: no firing
\* starts a delivery for an id a previous firing already tried to deliver.
C3_AttemptedOnce ==
    [][(Fires /\ _task'.pc = "reply") => fired[_task.id] # "attempted"]_vars

\* C4: between the wake-up for a reminder and the completion of its store
\* delete, no create or cancel command cancels the loop task.
C4_FiringNotAborted ==
    [][\A c \in cmds : (Finishes(c) /\ _task.pc \in Firing) => _task' = _task]_vars

\* C5: when the loop sleeps on a and remind creates b, due strictly before
\* a, the handler restarts the loop, and from then on a is not fired while
\* b is stored and has not fired; no firing is before its due_at; and the
\* loop task only ends when its fetch finds the store empty, so a, still
\* stored, is fetched again after b.
C5_EarlierCreatePreempts ==
    [][/\ \A c \in cmds :
            (/\ Finishes(c) /\ c.kind = "remind"
             /\ _task.pc = "sleep" /\ c.expires < _task.expires_at)
            => _task' = NewTask
       /\ Fires => (_task.id # ahead.a /\ now >= _task.expires_at)
       /\ (_task'.pc = "done" /\ _task.pc # "done")
            => (_task.pc = "fetch" /\ store = {})]_vars

\* C5, its case: after such a restart the loop sleeps on b while a is stored
C5_Witness ==
    /\ ahead # NoPair
    /\ _task.pc = "sleep" /\ _task.id = ahead.b
    /\ ahead.a \in StoredIds(store)

Acts ==
    \/ \E op \in inner' \ inner : op.phase = "new"
    \/ _task'.pc \in {"reply", "send"} /\ _task'.pc # _task.pc

\* C7: the loop never fires early: a delivery attempt, a delete or a
\* postponement is only started by the task for the reminder it fetched,
\* when the clock has reached the due_at it fetched.
C7_NeverEarly ==
    [][Acts => /\ _task.pc \in {"sleep", "reply", "send"}
               /\ _task.id # 0
               /\ \A op \in inner' \ inner : op.id = _task.id
               /\ now >= _task.expires_at]_vars

\* C7, its case: a delivery is under way at the very due_at
C7_Witness == _task.pc = "reply" /\ now = _task.expires_at

\* C8: an unexpected error of the store or of the delivery does not end
\* the scheduler: the loop task never ends with an exception.
C8_LoopSurvivesErrors == _task.pc # "failed"

\* lines 186 and 198: the destination is gone for good
PermanentFailure(t) ==
    t.guild = "none" \/ (t.guild = "ok" /\ t.channel \in {"none", "noperm"})

\* the shielded coroutine op completes in this step
Completes(op) == op \in inner /\ op.phase = "request" /\ op \notin inner'

\* C9: when at wake-up the guild is unknown, the channel is gone or the bot
\* may not send there, the loop starts the delete of the reminder and no
\* delivery attempt; a delivery is only ever under way with guild and
\* channel usable; when the delete completes the reminder is out of the
\* store and the awaiting task goes on to fetch.
C9_PermanentFailureDeletes ==
    [][/\ (Fires /\ PermanentFailure(_task'))
            => /\ _task'.pc = "shield"
               /\ inner' \ inner \subseteq {Shielded("delete", _task.id, None)}
               /\ Shielded("delete", _task.id, None) \in inner'
               /\ fired'[_task.id] = (IF fired[_task.id] = "no" THEN "fired"
                                      ELSE fired[_task.id])
       /\ _task'.pc \in {"reply", "send"}
            => (_task'.guild = "ok" /\ _task'.channel = "ok")
       /\ \A op \in inner :
            (Completes(op) /\ op.kind = "delete")
            => /\ op.id \notin StoredIds(store')
               /\ Awaits(_task, op) => _task' = NewTask]_vars

\* C9, its case: the loop awaits the delete of a reminder whose destination
\* is gone, and no delivery was attempted for it
C9_Witness ==
    /\ _task.pc = "shield" /\ PermanentFailure(_task)
    /\ fired[_task.id] = "fired"
    /\ Shielded("delete", _task.id, None) \in inner

\* C10: when at wake-up the guild is known but unavailable, the loop starts
\* neither a delivery nor a delete but the update of due_at to the due_at
\* it fetched plus the delay; when the update completes no reminder has
\* left the store, the reminder (if still stored) has that due_at, and the
\* awaiting task goes on to fetch.
C10_UnavailablePostpones ==
    [][/\ (Fires /\ _task'.guild = "unavailable")
            => /\ _task'.pc = "shield"
               /\ inner' \ inner \subseteq
                      {Shielded("reschedule", _task.id, _task.expires_at + PostponeDelay)}
               /\ Shielded("reschedule", _task.id, _task.expires_at + PostponeDelay) \in inner'
               /\ fired'[_task.id] # "attempted" \/ fired[_task.id] = "attempted"
       /\ \A op \in inner :
            (Completes(op) /\ op.kind = "reschedule")
            => /\ StoredIds(store') = StoredIds(store)
               /\ \A r \in store' : r.id = op.id => r.expires_at = op.expires_at
               /\ \A r \in store' : r.id # op.id => r \in store
               /\ Awaits(_task, op) => _task' = NewTask]_vars

\* C10, its case: a reminder the loop woke for without a delivery attempt
\* is back in the store with a later due_at, no delete or update of it is
\* pending, and the loop sleeps on a different reminder
C10_Witness ==
    \E r \in store :
        /\ fired[r.id] = "fired"
        /\ \A op \in inner : op.id # r.id
        /\ _task.pc = "sleep" /\ _task.id # r.id
        /\ r.expires_at > _task.expires_at

\* the step is one of the loop task itself: no command handler resumes
TaskStep == cmds' = cmds /\ _task' # _task

C12_FallbackOnlyWhenUnusable ==
    [][(_task.pc = "reply" /\ _task'.pc = "send") => _task'.error = "unusable"]_vars

\* C13: when the delete or the update the loop sent completes for an id
\* that is no longer stored, nothing is raised into the loop, the store is
\* left as it was (the reminder is not created again), no task ends, and
\* the task that awaits the request goes on to its next fetch.
C13_GoneIsSuccess ==
    [][\A op \in inner :
          (Completes(op) /\ op.id \notin StoredIds(store))
          => /\ store' = store
             /\ tasks' = tasks
             /\ _task'.pc # "failed"
             /\ Awaits(_task, op) => _task' = NewTask
             /\ ~Awaits(_task, op) => _task' = _task]_vars

\* C13, its case: the loop awaits the postponement it sent for a reminder
\* that its owner has cancelled meanwhile
C13_Witness ==
    \E op \in inner :
        /\ op.phase = "request" /\ op.kind = "reschedule"
        /\ op.id \notin StoredIds(store)
        /\ Awaits(_task, op)

\* the step in which the store applies the delete of a remind cancel
CancelDeletes(c) ==
    c \in cmds /\ c.kind = "cancel" /\ c.phase = "delete" /\ c \notin cmds'

\* C14: a reminder leaves the store only when a delete of the loop
\* completes or when the store applies the delete of a remind cancel of
\* its owner; the loop only starts a delete for the reminder it woke for,
\* after a delivery attempt or on a permanent failure; each of these
\* deletes leaves the reminder out of the store; a postponement, the
\* resumption of a command handler (a restart, an interrupted sleep) and
\* every other step remove nothing.
C14_RemovalCauses ==
    [][/\ \A r \in store :
            r.id \notin StoredIds(store')
            => \/ \E op \in inner :
                     Completes(op) /\ op.kind = "delete" /\ op.id = r.id
               \/ \E c \in cmds :
                     CancelDeletes(c) /\ Head(c.ids) = r.id /\ c.author = r.user_id
       /\ \A op \in inner' \ inner :
            (op.phase = "new" /\ op.kind = "delete")
            => /\ op.id = _task.id
               /\ PermanentFailure(_task') \/ _task.pc \in {"reply", "send"}
       /\ \A op \in inner :
            (Completes(op) /\ op.kind = "delete") => op.id \notin StoredIds(store')
       /\ \A op \in inner :
            (Completes(op) /\ op.kind = "reschedule") => StoredIds(store') = StoredIds(store)
       /\ \A c \in cmds :
            CancelDeletes(c) => Head(c.ids) \notin StoredIds(store')
       /\ \A c \in cmds :
            Finishes(c) => store' = store]_vars

\* C14, its case: a remind cancel of the owner has removed a reminder from
\* the store while another one stays stored
C14_Witness ==
    \E c \in cmds :
        /\ c.kind = "cancel" /\ c.phase = "finish" /\ c.removed # {}
        /\ c.removed \cap StoredIds(store) = {}
        /\ store # {}

\* C15: at most one _fulfill_reminders task is live, and it is the one
\* _task refers to: a task that ended or was cancelled is not counted, so
\* at most one sleep timer is pending.
C15_OneLiveTask ==
    /\ tasks \in {0, 1}
    /\ tasks = 1 <=> _task.pc \notin {"done", "failed"}

\* C15, its case: a remind has just cancelled a sleeping task and created
\* the task that is about to fetch
C15_Witness == ahead # NoPair /\ _task = NewTask /\ tasks = 1

\* C16: _next is set only while the task holds a fetched reminder of that
\* due_at which it sleeps on or fires; otherwise it is None.
C16_NextDiscipline ==
    _next # None => /\ _task.pc \in {"sleep", "reply", "send", "shield"}
                    /\ _task.expires_at = _next

\* C17: when a command handler cancels the task during its sleep, the step
\* starts no delivery, no delete and no update, leaves the store as it is,
\* keeps what is known of the firings of the stored reminders, and leaves
\* a new task that is about to fetch.
C17_InterruptedSleepHasNoEffect ==
    [][\A c \in cmds :
          (Finishes(c) /\ _task.pc = "sleep" /\ _task' # _task)
          => /\ _task' = NewTask
             /\ store' = store
             /\ inner' = inner
             /\ \A i \in StoredIds(store) : fired'[i] = fired[i]
             /\ lastFired' = lastFired]_vars

\* C17, its case: after such an interruption the reminder slept on is
\* still stored and unfired, nothing is in flight for it, and the new task
\* is about to fetch
C17_Witness ==
    /\ ahead # NoPair /\ _task = NewTask /\ inner = {}
    /\ fired[ahead.a] = "no" /\ ahead.a \in StoredIds(store)

\* C18: a handler that restarts the loop leaves one live task that is
\* about to fetch, whatever the task was doing; when the task has not run
\* since the previous restart the state is the one that restart left; and
\* the fetch of the new task returns the earliest stored reminder (or ends
\* the task on an empty store), nothing that the handlers carried.
C18_RestartIdempotent ==
    [][/\ \A c \in cmds :
            (Finishes(c) /\ _task' # _task) => (_task' = NewTask /\ tasks' = 1)
       /\ \A c \in cmds :
            (Finishes(c) /\ _task = NewTask /\ tasks = 1)
            => /\ _task' = NewTask /\ tasks' = 1
               /\ UNCHANGED <<store, inner, _next, now>>
       /\ (_task.pc = "fetch" /\ _task'.pc = "fetched")
            => /\ store # {}
               /\ _task'.id = Earliest(store).id
               /\ _task'.expires_at = Earliest(store).expires_at
               /\ tasks' = tasks]_vars

\* C18, its case: the task created by a restart has not fetched yet and a
\* second remind handler is about to restart the loop again
C18_Witness ==
    /\ _task = NewTask /\ _next # None /\ tasks = 1
    /\ \E c \in cmds : c.kind = "remind" /\ ShouldRestartOnCreate(c.expires)

\* C19: remind cancel asks the store to delete an id only after
\* get_reminder returned a reminder of that id whose user_id is the
\* invoker's; the store's delete removes that reminder of the invoker and
\* no other; every other step of the handler leaves the store as it is;
\* and the count that decides the success message is the number of
\* reminders this invocation removed.
C19_CancelOwnOnly ==
    [][\A c \in cmds :
          c.kind = "cancel"
          => /\ c.deleted = Cardinality(c.removed)
             /\ (c.phase = "get" /\ c \notin cmds')
                  => /\ store' = store
                     /\ (\E d \in cmds' \ cmds : d.phase = "delete")
                          => \E r \in store : r.id = Head(c.ids) /\ r.user_id = c.author
             /\ CancelDeletes(c)
                  => \A r \in store \ store' : r.id = Head(c.ids) /\ r.user_id = c.author
             /\ Finishes(c) => store' = store]_vars

\* C19, its case: a remind cancel awaits get_reminder for the stored
\* reminder of another user
C19_Witness ==
    \E c \in cmds, r \in store :
        /\ c.kind = "cancel" /\ c.phase = "get"
        /\ r.id = Head(c.ids) /\ r.user_id # c.author

\* C20: the reply and the fallback send carry the same allowed_mentions:
\* users and the replied user always, @everyone exactly when at firing
\* time the owner is a member with mention_everyone in the channel.
C20_MentionPolicy ==
    IF _task.pc \in {"reply", "send"}
    THEN /\ _task.used = _task.mentions
         /\ _task.used.users /\ _task.used.replied_user
         /\ _task.used.everyone <=> _task.member = "mention_everyone"
    ELSE _task.used = NoMentions

\* C20, its case: the fallback send is under way for an owner who may
\* mention @everyone
C20_Witness ==
    _task.pc = "send" /\ _task.member = "mention_everyone" /\ _task.used.everyone

\* C25: a cancelled reminder is never delivered: no firing starts a
\* delivery for an id that the loop never woke for and that is no longer
\* stored (only a remind cancel deletes a reminder the loop never woke
\* for), whenever the delete committed.
C25_CancelledNeverDelivered ==
    [][(Fires /\ _task'.pc = "reply")
         => ~(_task.id \notin StoredIds(store) /\ fired[_task.id] = "no")]_vars

\* C26: the due_at a postponement writes is later than the time of the
\* postponement, however late the loop woke for the reminder.
C26_PostponedIsLater ==
    [][Fires => \A op \in inner' \ inner :
                    op.kind = "reschedule" => op.expires_at > now]_vars

(***************************************************************************)
(* Command._transform_greedy_pos (bot/command.py)                          *)
(*                                                                         *)
(* The view is the sequence of the words still to be parsed.  A word is    *)
(* "good" (do_conversion returns a value), "bad" (do_conversion raises a   *)
(* CommandError) or "quote" (view.get_quoted_word raises an                *)
(* ArgumentParsingError for its quoting).                                  *)
(***************************************************************************)
MaxWords == 3          \* words in the view

Words == {"good", "bad", "quote"}
Views == UNION {[1..n -> Words] : n \in 0..MaxWords}

\* the call _transform_greedy_pos(ctx, param, required, converter) of a
\* command created with or without default_greedy, before its first step
GreedyCall(default_greedy, required, view) ==
    [pc |-> "loop", default_greedy |-> default_greedy, required |-> required,
     view |-> view, index |-> 0, result |-> <<>>, error |-> "none",
     returned |-> "none", raised |-> "none"]

\* view.eof
eof(g) == g.index >= Len(g.view)

\* the error a word that is not "good" raises
Failure(word) == IF word = "quote" THEN "parsing" ELSE "conversion"

\* lines 42-57: one pass of the loop.  get_quoted_word (line 47) is called
\* outside the try, so its error leaves the function; the error of
\* do_conversion is kept, the view is wound back and the loop ends
Convert ==
    /\ greedy.pc = "loop" /\ ~greedy.default_greedy /\ ~eof(greedy)
    /\ LET previous == greedy.index
           argument == greedy.view[previous + 1]
       IN  greedy' =
             CASE argument = "quote" ->
                    [greedy EXCEPT !.pc = "raised", !.raised = Failure(argument)]
               [] argument = "bad" ->
                    [greedy EXCEPT !.pc = "break", !.error = Failure(argument),
                                   !.index = previous]
               [] OTHER ->
                    [greedy EXCEPT !.result = Append(@, argument),
                                   !.index = previous + 1]
    /\ UNCHANGED <<reminders, prune, config>>

\* lines 59-67 returning whatever was converted
AfterLoop_NoRequirement(required, result, error) ==
    IF result = <<>> /\ ~required
    THEN [pc |-> "returned", returned |-> "default", raised |-> "none"]
    ELSE [pc |-> "returned", returned |-> "list", raised |-> "none"]

\* lines 59-67: what the function returns or raises after the loop
AfterLoop(required, result, error) ==
    IF result = <<>>
    THEN IF ~required
         THEN [pc |-> "returned", returned |-> "default", raised |-> "none"]
         ELSE IF error # "none"
         THEN [pc |-> "raised", returned |-> "none", raised |-> error]
         ELSE [pc |-> "raised", returned |-> "none",
               raised |-> "MissingRequiredArgument"]
    ELSE [pc |-> "returned", returned |-> "list", raised |-> "none"]

\* lines 42 and 59-67: the loop is over
Return ==
    /\ ~greedy.default_greedy
    /\ greedy.pc = "break" \/ (greedy.pc = "loop" /\ eof(greedy))
    /\ LET r == AfterLoop(greedy.required, greedy.result, greedy.error)
       IN  greedy' = [greedy EXCEPT !.pc = r.pc, !.returned = r.returned,
                                    !.raised = r.raised]
    /\ UNCHANGED <<reminders, prune, config>>

\* the number of leading "good" words of a view
RECURSIVE Leading(_)
Leading(view) ==
    IF view = <<>> \/ Head(view) # "good" THEN 0 ELSE 1 + Leading(Tail(view))

\* lines 34-35: discord.py's own _transform_greedy_pos converts words up
\* to the first that fails and returns them, or param.default when there
\* are none and the parameter is not required
Super ==
    /\ greedy.pc = "loop" /\ greedy.default_greedy
    /\ LET n == Leading(greedy.view)
       IN  greedy' = [greedy EXCEPT !.pc = "returned",
                                    !.returned = IF n = 0 /\ ~greedy.required
                                                 THEN "default" ELSE "list",
                                    !.index = n,
                                    !.result = SubSeq(greedy.view, 1, n)]
    /\ UNCHANGED <<reminders, prune, config>>

\* every call, on every view
InitGreedy ==
    /\ now = 0 /\ store = {} /\ nextId = 1 /\ _next = None
    /\ _task = NewTask /\ inner = {} /\ cmds = {}
    /\ fired = [i \in Ids |-> "no"] /\ lastFired = None /\ ahead = NoPair
    /\ dues = {} /\ tasks = 1
    /\ greedy \in {GreedyCall(d, r, v) : d \in BOOLEAN, r \in BOOLEAN, v \in Views}
    /\ prune = NoPrune
    /\ config = NoConfig

NextGreedy ==
    \/ Convert
    \/ Return
    \/ Super

SpecGreedy == InitGreedy /\ [][NextGreedy]_vars

MaxMembers == 2        \* members of the guild

\* line 32
PERMISSIONS == {"administrator", "ban_members", "kick_members", "manage_messages"}

\* ctx.me.top_role (line 123): the position of the bot's top role
BotTopRole == 2

RoleIds == 1..BotTopRole

\* datetime.datetime.utcnow() (line 108), in days
utcnow == 10

\* a discord.Member: bot, roles, guild_permissions
Profiles ==
    [bot : BOOLEAN, roles : SUBSET RoleIds,
     guild_permissions : {{"send_messages"}} \cup
                         {{"send_messages", x} : x \in PERMISSIONS}]

Guilds == [1..MaxMembers -> Profiles]

\* what the commands are given: days, and the days since the bot joined
DaysGiven == {7, 8}
DaysSpent == {7, 9}

\* the records of tracking.bulk_last_status: seen and status are a date or
\* None
Dates    == {None, 1, 5}
Statuses == [seen : Dates, status : Dates]

\* raw_reaction_add payloads: on the prompt or on another message, in the
\* channel of the command or elsewhere, by the author or by someone else
Payloads ==
    {d \in [message_id : {"prompt", "other"}, channel_id : {"ctx", "elsewhere"},
            user_id : {"author", "other"}, emoji : {"check", "cross", "other"}] :
        d.message_id = "prompt" => d.channel_id = "ctx"}

\* lines 142-145
choices == [cross |-> FALSE, check |-> TRUE]

\* member.top_role
top_role(member) ==
    IF member.roles = {} THEN 0
    ELSE CHOOSE x \in member.roles : \A y \in member.roles : y <= x

\* lines 35-39
has_any_role(role_ids, member) == \E x \in member.roles : x \in role_ids

\* lines 42-46 with a top role that may equal the bot's
can_be_pruned_NotStrict(bot_role, member) ==
    /\ ~member.bot
    /\ top_role(member) <= bot_role
    /\ member.guild_permissions \cap PERMISSIONS = {}

\* lines 42-46
can_be_pruned(bot_role, member) ==
    /\ ~member.bot
    /\ top_role(member) < bot_role
    /\ member.guild_permissions \cap PERMISSIONS = {}

\* what a check returns: a value, or the error it raises
Returns(value) == [value |-> value, error |-> "none"]
Raises(error)  == [value |-> FALSE, error |-> error]

\* lines 49-53
should_prune_seen(start, status) ==
    Returns(status.seen = None \/ status.seen < start)

\* lines 56-62: Python reads line 60 as
\* (seen(status) and status.status is None) or (status.status < start),
\* and None < start raises a TypeError
should_prune_status(start, status) ==
    IF should_prune_seen(start, status).value /\ status.status = None
    THEN Returns(TRUE)
    ELSE IF status.status = None THEN Raises("TypeError")
    ELSE Returns(status.status < start)

\* lines 129-134
start(days) == utcnow - days

check(strategy, days, status) ==
    IF strategy = "seen"
    THEN should_prune_seen(start(days), status)
    ELSE should_prune_status(start(days), status)

\* lines 117-124: the members the command goes on with, in guild order
Candidates(guild, roles) ==
    LET all  == [i \in 1..Len(guild) |-> i]
        with == IF roles = {} THEN all
                ELSE SelectSeq(all, LAMBDA i : has_any_role(roles, guild[i]))
    IN  SelectSeq(with, LAMBDA i : can_be_pruned(BotTopRole, guild[i]))

\* lines 136 and 167-168: the positions of zip(members, statuses) for
\* which check(status) is true
Selected(p) ==
    {j \in DOMAIN p.members \cap DOMAIN p.statuses :
        check(p.strategy, p.days, p.statuses[j]).value}

\* lines 71-127: prune (strategy "status") or prune local (strategy "seen")
\* up to the refusal or to the await of bulk_last_status
Prune(strategy, roles, days, spent) ==
    /\ prune.pc = "idle"
    /\ prune' = IF days > spent
                THEN [prune EXCEPT !.pc = "done", !.outcome = "refused",
                                   !.strategy = strategy, !.roles = roles,
                                   !.days = days, !.spent = spent]
                ELSE [prune EXCEPT !.pc = "statuses",
                                   !.strategy = strategy, !.roles = roles,
                                   !.days = days, !.spent = spent,
                                   !.members = Candidates(prune.guild, roles)]
    /\ UNCHANGED <<reminders, greedy, config>>

\* lines 127-140: bulk_last_status returns one record per member; the
\* command counts and sends its prompt, or ends with the error of a check
BulkLastStatus(statuses) ==
    /\ prune.pc = "statuses"
    /\ Len(statuses) = Len(prune.members)
    /\ LET p == [prune EXCEPT !.statuses = statuses]
       IN  prune' =
             IF \E j \in 1..Len(statuses) :
                    check(p.strategy, p.days, statuses[j]).error # "none"
             THEN [p EXCEPT !.pc = "done", !.outcome = "TypeError"]
             ELSE [p EXCEPT !.pc = "prompt", !.count = Cardinality(Selected(p))]
    /\ UNCHANGED <<reminders, greedy, config>>

\* lines 138-148: ctx.send returns the prompt; the reactions are added
Prompted ==
    /\ prune.pc = "prompt"
    /\ prune' = [prune EXCEPT !.pc = "react", !.msg = "prompt"]
    /\ UNCHANGED <<reminders, greedy, config>>

\* lines 147-154: the reactions are there; the command waits for a reaction
AddedReactions ==
    /\ prune.pc = "react"
    /\ prune' = [prune EXCEPT !.pc = "wait"]
    /\ UNCHANGED <<reminders, greedy, config>>

\* lines 150-151
reaction_check(data) ==
    /\ data.channel_id = "ctx" /\ data.user_id = "author"
    /\ data.emoji \in DOMAIN choices

\* lines 167-173: the loop runs up to the next member whose check is true
\* and awaits member.kick for it, or ends
KickFrom(p, from) ==
    LET next == {j \in Selected(p) : j >= from}
    IN  IF next = {}
        THEN [p EXCEPT !.pc = "done", !.outcome = "pruned", !.k = 0]
        ELSE LET j == CHOOSE x \in next : \A y \in next : x <= y
             IN  [p EXCEPT !.pc = "kick", !.k = j,
                           !.kicked = Append(@, p.members[j])]

\* lines 153-173: a reaction is added somewhere while the command waits
Reaction(data) ==
    /\ prune.pc = "wait"
    /\ prune' = IF ~reaction_check(data) THEN [prune EXCEPT !.ignored = TRUE]
                ELSE IF ~choices[data.emoji]
                THEN [prune EXCEPT !.pc = "done", !.outcome = "declined",
                                   !.payload = data]
                ELSE KickFrom([prune EXCEPT !.payload = data], 1)
    /\ UNCHANGED <<reminders, greedy, config>>

\* lines 155-157
Timeout ==
    /\ prune.pc = "wait"
    /\ prune' = [prune EXCEPT !.pc = "done", !.outcome = "timeout"]
    /\ UNCHANGED <<reminders, greedy, config>>

\* lines 172-177: member.kick returns or raises discord.HTTPException
Kicked(ok) ==
    /\ prune.pc = "kick"
    /\ prune' = KickFrom(prune, prune.k + 1)
    /\ UNCHANGED <<reminders, greedy, config>>

\* a guild and no prune command yet
NoCommand(guild) ==
    [pc |-> "idle", guild |-> guild, strategy |-> "none", roles |-> {},
     days |-> 0, spent |-> 0, members |-> <<>>, statuses |-> <<>>,
     count |-> None, msg |-> "none", payload |-> "none", ignored |-> FALSE,
     k |-> 0, kicked |-> <<>>, outcome |-> "none"]

\* every guild, no command yet
InitPrune ==
    /\ now = 0 /\ store = {} /\ nextId = 1 /\ _next = None
    /\ _task = NewTask /\ inner = {} /\ cmds = {}
    /\ fired = [i \in Ids |-> "no"] /\ lastFired = None /\ ahead = NoPair
    /\ dues = {} /\ tasks = 1
    /\ greedy = NoCall
    /\ prune \in {NoCommand(g) : g \in Guilds}
    /\ config = NoConfig

NextPrune ==
    \/ \E strategy \in {"seen", "status"}, roles \in SUBSET RoleIds,
          days \in DaysGiven, spent \in DaysSpent :
            Prune(strategy, roles, days, spent)
    \/ \E statuses \in UNION {[1..n -> Statuses] : n \in 0..MaxMembers} :
            BulkLastStatus(statuses)
    \/ Prompted
    \/ AddedReactions
    \/ \E data \in Payloads : Reaction(data)
    \/ Timeout
    \/ \E ok \in BOOLEAN : Kicked(ok)

SpecPrune == InitPrune /\ [][NextPrune]_vars

\* a member the commands must leave alone: a bot, a member whose top role
\* is not below the bot's, a member with a moderator permission
Protected(member) ==
    \/ member.bot
    \/ \E x \in member.roles : x >= BotTopRole
    \/ \E x \in member.guild_permissions : x \in PERMISSIONS

\* the members a kick was attempted on
KickedSet == {prune.kicked[j] : j \in 1..Len(prune.kicked)}

\* C22: for days <= 7 the commands issue no confirmation prompt and kick
\* no member.
C22_DaysAboveSeven ==
    (prune.pc # "idle" /\ prune.days <= 7) =>
        /\ prune.pc \in {"statuses", "done"}
        /\ prune.msg = "none"
        /\ prune.kicked = <<>>

\* C23: without roles only members that have no roles are candidates, with
\* roles only members holding one of them; no other member is counted or
\* kicked.
C23_CandidatesByRole ==
    LET candidate(i) ==
            IF prune.roles = {} THEN prune.guild[i].roles = {}
            ELSE prune.guild[i].roles \cap prune.roles # {}
    IN  prune.pc # "idle" =>
          /\ \A j \in 1..Len(prune.members) : candidate(prune.members[j])
          /\ \A i \in KickedSet : candidate(i)
          /\ prune.count # None =>
                prune.count <= Cardinality({i \in 1..Len(prune.guild) : candidate(i)})

\* C24: the kicks start only in the step in which the author's check mark
\* on the prompt, in the channel of the command, ends the wait; after a
\* timeout or a cross no member was kicked.
C24_KicksNeedConfirmation ==
    [][/\ (prune.kicked = <<>> /\ prune'.kicked # <<>>) =>
            /\ prune.pc = "wait" /\ prune.msg = "prompt"
            /\ prune'.payload = [message_id |-> "prompt", channel_id |-> "ctx",
                                 user_id |-> "author", emoji |-> "check"]
       /\ prune'.outcome \in {"timeout", "declined"} => prune'.kicked = <<>>]_vars

\* C27: no kick is attempted on a protected member, and when the command
\* has pruned, the members a kick was attempted on are those counted in the
\* prompt: the candidates whose check is true, as many as the count.
C27_ProtectedNeverKicked ==
    /\ \A i \in KickedSet : ~Protected(prune.guild[i])
    /\ prune.pc = "kick" => Len(prune.kicked) <= prune.count
    /\ prune.outcome = "pruned" =>
          /\ Len(prune.kicked) = prune.count
          /\ KickedSet = {prune.members[j] : j \in Selected(prune)}

\* C27, its case: the command has pruned a guild with a protected member,
\* and a kick was attempted
C27_Witness ==
    /\ prune.outcome = "pruned" /\ prune.kicked # <<>>
    /\ \E i \in 1..Len(prune.guild) :
          /\ Protected(prune.guild[i])
          /\ prune.roles # {} => has_any_role(prune.roles, prune.guild[i])

\* C28: under the status strategy the check returns a boolean for every
\* record (the command does not end with a TypeError), and the records it
\* selects have a seen that is absent or older than start and a status
\* that is absent or older than start.
C28_StatusStrategy ==
    prune.strategy = "status" =>
        /\ prune.outcome # "TypeError"
        /\ \A j \in Selected(prune) :
              LET status == prune.statuses[j]
              IN  /\ status.seen = None \/ status.seen < start(prune.days)
                  /\ status.status = None \/ status.status < start(prune.days)

(***************************************************************************)
(* The config cache of the Config plugin (bot/src/plugins/config/plugin.py)*)
(*                                                                         *)
(* One guild: db holds its guild_configs row (no row: the empty set),      *)
(* _configs its cache entry (no entry: the empty set).  MaxGets calls of   *)
(* _get_config and one writing command run concurrently, cut at their      *)
(* awaits; a dispatched mouse_config_update runs its listener in a later   *)
(* pass of the event loop.                                                 *)
(***************************************************************************)
MaxGets   == 2         \* concurrent _get_config calls
MaxEvents == 2         \* dispatched mouse_config_update events not yet handled

\* lines 42-44 (class GuildConfig) and the values written to its columns
PrefixLists == {<<>>, <<"!">>}
RoleLists   == {<<>>, <<1>>}

\* line 490: GuildConfig(**record), record = {} when there is no row
GuildConfig(rows) ==
    IF rows = {} THEN [prefixes |-> <<>>, required_roles |-> <<>>]
    ELSE CHOOSE row \in rows : TRUE

\* the INSERT ... ON CONFLICT (guild_id) DO UPDATE of lines 108-117 and
\* 434-443: one column of the guild's row is set
Upsert(rows, column, value) ==
    {IF column = "prefixes"
     THEN [GuildConfig(rows) EXCEPT !.prefixes = value]
     ELSE [GuildConfig(rows) EXCEPT !.required_roles = value]}

\* no writing command
NoWrite == [pc |-> "idle", column |-> "none", value |-> <<>>]

\* the guild's row, an empty cache, no call and no pending event
NewConfig(rows, gets) ==
    [db |-> rows, _configs |-> {}, gets |-> gets, write |-> NoWrite,
     events |-> 0]

\* a _get_config call that has not started, or has returned
GetIdle == [pc |-> "idle", record |-> {}, returned |-> {}]

\* lines 476-485: _get_config returns the cached entry, or misses and
\* awaits fetchrow
GetConfig(i) ==
    /\ config.gets[i].pc \in {"idle", "returned"}
    /\ config' = IF config._configs # {}
                 THEN [config EXCEPT !.gets[i] =
                           [GetIdle EXCEPT !.pc = "returned",
                                           !.returned = config._configs]]
                 ELSE [config EXCEPT !.gets[i] =
                           [GetIdle EXCEPT !.pc = "fetchrow"]]
    /\ UNCHANGED <<reminders, greedy, prune>>

\* lines 483-485: the database answers the SELECT
Fetchrow(i) ==
    /\ config.gets[i].pc = "fetchrow"
    /\ config' = [config EXCEPT !.gets[i].pc = "record",
                                !.gets[i].record = config.db]
    /\ UNCHANGED <<reminders, greedy, prune>>

\* lines 487-491: the entry the call leaves in the cache
CacheRecord(cached, record) == {GuildConfig(record)}

\* lines 487-491: the call resumes, caches what it read and returns it
GetResume(i) ==
    /\ config.gets[i].pc = "record"
    /\ config' = [config EXCEPT
                    !._configs = CacheRecord(config._configs, config.gets[i].record),
                    !.gets[i] = [GetIdle EXCEPT
                                   !.pc = "returned",
                                   !.returned = {GuildConfig(config.gets[i].record)}]]
    /\ UNCHANGED <<reminders, greedy, prune>>

\* lines 106-117 and 433-443: _update_prefixes or permissions roles issues
\* its statement
Write(column, value) ==
    /\ config.write.pc = "idle"
    /\ config.events < MaxEvents
    /\ config' = [config EXCEPT !.write =
                     [pc |-> "execute", column |-> column, value |-> value]]
    /\ UNCHANGED <<reminders, greedy, prune>>

\* lines 108-117 and 434-443: the database commits the statement
Execute ==
    /\ config.write.pc = "execute"
    /\ config' = [config EXCEPT
                    !.db = Upsert(config.db, config.write.column, config.write.value),
                    !.write.pc = "committed"]
    /\ UNCHANGED <<reminders, greedy, prune>>

\* lines 119 and 445: the command resumes and dispatches mouse_config_update
Dispatch ==
    /\ config.write.pc = "committed"
    /\ config' = [config EXCEPT !.write = NoWrite,
                                !.events = @ + 1]
    /\ UNCHANGED <<reminders, greedy, prune>>

\* lines 466-471: on_mouse_config_update drops the cache entry
on_mouse_config_update ==
    /\ config.events > 0
    /\ config' = [config EXCEPT !._configs = {}, !.events = @ - 1]
    /\ UNCHANGED <<reminders, greedy, prune>>

\* lines 48-51: an empty cache; the guild has no row or any row
InitConfig ==
    /\ now = 0 /\ store = {} /\ nextId = 1 /\ _next = None
    /\ _task = NewTask /\ inner = {} /\ cmds = {}
    /\ fired = [i \in Ids |-> "no"] /\ lastFired = None /\ ahead = NoPair
    /\ dues = {} /\ tasks = 1
    /\ greedy = NoCall
    /\ prune = NoPrune
    /\ config \in {NewConfig(rows, [i \in 1..MaxGets |-> GetIdle]) :
                     rows \in {{}} \cup {{[prefixes |-> x, required_roles |-> y]} :
                                            x \in PrefixLists, y \in RoleLists}}

NextConfig ==
    \/ \E i \in 1..MaxGets : GetConfig(i)
    \/ \E i \in 1..MaxGets : Fetchrow(i)
    \/ \E i \in 1..MaxGets : GetResume(i)
    \/ \E value \in PrefixLists : Write("prefixes", value)
    \/ \E value \in RoleLists : Write("required_roles", value)
    \/ Execute
    \/ Dispatch
    \/ on_mouse_config_update

SpecConfig == InitConfig /\ [][NextConfig]_vars

\* C29: once every write has committed and its mouse_config_update has
\* been handled, the cache holds no entry other than the committed config,
\* so every _get_config from then on returns the committed value, whatever
\* _get_config calls were under way during the write.
C29_CacheCoherent ==
    (config.write.pc = "idle" /\ config.events = 0) =>
        \A entry \in config._configs : entry = GuildConfig(config.db)

====
